---- MODULE Spec2Model ----
(***************************************************************************)
(* A model of fontParts' BaseLayer (Lib/fontParts/objects/base/layer.py):  *)
(* the weak back-reference to the parent font, the validated name and      *)
(* color properties, and the default glyph container protocol (keys,       *)
(* len, contains, getitem, iteration).                                     *)
(*                                                                         *)
(* Python values are encoded as tuples of strings so that values of        *)
(* different Python types can be compared:                                 *)
(*   None  -> <<"None">>      "a"  -> <<"str", "a">>      7 -> <<"int","7">>*)
(*   (1, 0, 0, 1) -> <<"tuple", "1", "0", "0", "1">>                       *)
(* Fonts are numbered 1..NFonts; 0 stands for None where a font is         *)
(* expected.                                                               *)
(***************************************************************************)
EXTENDS Integers, Sequences, FiniteSets, TLC

\* ------------------------------------------------------------------ bounds
NLayers == 2
NFonts == 2
MaxGlyphs == 3

Layers == 1..NLayers
Fonts == 1..NFonts
NoFont == 0

\* ------------------------------------------------------------ Python values
PyNone == <<"None">>
PyStr(s) == <<"str", s>>
PyInt == <<"int", "7">>
IsString(value) == value[1] = "str"

LayerNameStrings == {"a", "b"}
\* the values a script can assign to layer.name
NameInputs == {PyNone, PyInt, PyStr("")} \cup {PyStr(s) : s \in LayerNameStrings}
\* the values the _get_name hook of a working environment holds
StoredNames == {PyNone} \cup {PyStr(s) : s \in LayerNameStrings}

IsTuple(value) == value[1] = "tuple"
\* the number a component of a tuple stands for
Num(c) == CASE c = "0" -> 0 [] c = "1" -> 1 [] c = "2" -> 2
Red == <<"tuple", "1", "0", "0", "1">>
\* the values a script can assign to layer.color
ColorInputs ==
    {PyNone, PyInt, Red, <<"tuple", "1", "0", "0">>, <<"tuple", "1", "0", "2", "1">>}

\* glyph names: the first MaxGlyphs names can be glyphs of the layer
GlyphNameList == <<"a", "b", "c", "d", "e">>
GlyphNames == {PyStr(GlyphNameList[i]) : i \in 1..MaxGlyphs}
\* the values a script can pass to layer[name] and name in layer
GlyphInputs == GlyphNames \cup {PyStr("missing"), PyStr(""), PyInt}

VARIABLES
    pyDebug,      \* Python's __debug__: assert statements are executed (no -O)
    fontAlive,    \* fontAlive[f]: font f has not been garbage collected
    layerFont,    \* layerFont[l]: BaseLayer._font, NoFont or a weak reference
    layerName,    \* layerName[l]: the value behind the _get_name/_set_name hooks
    layerColor,   \* layerColor[l]: the value behind the _get_color/_set_color hooks
    glyphHooks,   \* the layer's class overrides the glyph hooks of BaseLayer
    layerKeys,    \* the glyph names an environment's layer holds, in its order
    itState,      \* the generator _iter returned: none / created / running / finished
    itNames,      \* the generator's local variable names
    itYield,      \* the glyphs the generator has yielded so far
    itSnapshot,   \* the list keys() returned to the generator
    itMutated,    \* a glyph was added or removed since the generator was made
    last          \* outcome of the last operation

layerVars == <<pyDebug, fontAlive, layerFont, layerName, layerColor>>
glyphVars == <<glyphHooks, layerKeys, itState, itNames, itYield, itSnapshot, itMutated>>
vars == <<layerVars, glyphVars, last>>

\* ------------------------------------------------------------- validators
\* validators.validateLayerName: a string of at least one character
validLayerName(value) == IsString(value) /\ value[2] # ""
validateLayerName(value) ==
    IF validLayerName(value)
    THEN [status |-> "ok", value |-> value]
    ELSE [status |-> "ValidationError", value |-> value]

\* validators.validateColor: four numbers, each between 0 and 1
validColor(value) ==
    /\ IsTuple(value)
    /\ Len(value) - 1 = 4
    /\ \A i \in 2..5 : ~(Num(value[i]) < 0 \/ Num(value[i]) > 1)
validateColor(value) ==
    IF validColor(value)
    THEN [status |-> "ok", value |-> value]
    ELSE [status |-> "ValidationError", value |-> value]

\* validators.validateGlyphName: a string of at least one character
validGlyphName(value) == IsString(value) /\ value[2] # ""
validateGlyphName(value) ==
    IF validGlyphName(value)
    THEN [status |-> "ok", value |-> value]
    ELSE [status |-> "ValidationError", value |-> value]

\* ------------------------------------------------------ glyph interaction
InSeq(value, seq) == \E i \in DOMAIN seq : seq[i] = value

\* self.raiseNotImplementedError()
NotImplemented == [status |-> "NotImplementedError", value |-> PyNone]

\* BaseLayer._keys and BaseLayer._getItem: subclasses must override them
_keys == NotImplemented
_getItem(name) == NotImplemented

\* BaseLayer.newGlyph, removeGlyph, insertGlyph: a docstring and no body, the
\* call returns None and the layer is as before. Each gives the key list
\* after the call.
newGlyph(name, clear) == layerKeys
removeGlyph(name) == layerKeys
insertGlyph(glyph, name) == layerKeys

\* The overrides of an environment. _keys gives the glyph names as a list of
\* its own, which later changes to the layer do not alter; _getItem gives the
\* wrapped glyph of that name.
env_keys == [status |-> "ok", value |-> layerKeys]
env_getItem(name) == [status |-> "ok", value |-> <<"glyph", name[2]>>]
\* a new glyph is listed last; clear empties a glyph that exists already
env_newGlyph(name, clear) ==
    IF InSeq(name, layerKeys) THEN layerKeys ELSE Append(layerKeys, name)
env_removeGlyph(name) == SelectSeq(layerKeys, LAMBDA k : k # name)
\* the copy goes under name, or under the glyph's own name when name is None;
\* with no name at all nothing is inserted
env_insertGlyph(glyph, name) ==
    LET target == IF name # PyNone THEN name ELSE glyph IN
    IF target = PyNone THEN layerKeys ELSE env_newGlyph(target, TRUE)

\* self._keys() and self._getItem(name), resolved on the layer's class
keys == IF glyphHooks THEN env_keys ELSE _keys
self_getItem(name) == IF glyphHooks THEN env_getItem(name) ELSE _getItem(name)

_len ==
    LET k == keys IN
    IF k.status # "ok" THEN k ELSE [status |-> "ok", value |-> Len(k.value)]

_contains(name) ==
    LET k == keys IN
    IF k.status # "ok" THEN k ELSE [status |-> "ok", value |-> InSeq(name, k.value)]

__contains__(name) ==
    LET v == validateGlyphName(name) IN
    IF v.status # "ok" THEN v
    ELSE _contains(v.value)

\* mutant: the glyph is fetched without testing that the layer holds it
__getitem__unchecked(name) ==
    LET v == validateGlyphName(name) IN
    IF v.status # "ok" THEN v
    ELSE self_getItem(v.value)

__getitem__(name) ==
    LET v == validateGlyphName(name) IN
    IF v.status # "ok" THEN v
    ELSE LET c == __contains__(v.value) IN
         IF c.status # "ok" THEN c
         ELSE IF ~c.value THEN [status |-> "NotFound", value |-> v.value]
         ELSE self_getItem(v.value)

\* the generator after the step that found names0 to be the names left
Visit(names0) ==
    IF names0 = <<>>
    THEN [state |-> "finished", names |-> <<>>, status |-> "StopIteration", value |-> PyNone]
    ELSE LET r == __getitem__(names0[1]) IN
         IF r.status = "ok"
         THEN [state |-> "running", names |-> names0, status |-> "yield", value |-> r.value]
         ELSE [state |-> "finished", names |-> <<>>, status |-> r.status, value |-> PyNone]
Raised(status) ==
    [state |-> "finished", names |-> <<>>, status |-> status, value |-> PyNone]

\* mutant: names = names[2:], every second name is skipped
_iter_skipping(state, names) ==
    IF state = "created"
    THEN IF keys.status # "ok" THEN Raised(keys.status) ELSE Visit(keys.value)
    ELSE Visit(IF Len(names) >= 2 THEN Tail(Tail(names)) ELSE <<>>)

\* mutant: the key list is fetched again on every step and the names
\* already visited are dropped from it
_iter_refetching(state, names) ==
    IF keys.status # "ok" THEN Raised(keys.status)
    ELSE Visit(SelectSeq(keys.value, LAMBDA k : ~InSeq(env_getItem(k).value, itYield)))

\* one resumption of the generator _iter: from its start (state "created")
\* or from its yield (state "running", names as they were at the yield) to
\* its next yield, its return or the error that ends it
_iter(state, names) ==
    IF state = "created"
    THEN IF keys.status # "ok" THEN Raised(keys.status) ELSE Visit(keys.value)
    ELSE Visit(Tail(names))

\* ------------------------------------------------------------------- font
\* weakref.ref(font)(): the referent while it is alive, None afterwards
deref(ref) == IF fontAlive[ref] THEN ref ELSE NoFont

\* mutant: the stored reference is returned without being dereferenced
_get_font_dangling(l) == layerFont[l]

_get_font(l) ==
    IF layerFont[l] = NoFont
    THEN NoFont
    ELSE deref(layerFont[l])

\* outcome of layer.font = font: the status and the new value of _font.
\* The guard is an assert statement: it is compiled away under python -O.
_set_font(l, font) ==
    IF pyDebug /\ layerFont[l] # NoFont
    THEN [status |-> "AssertionError", font |-> layerFont[l]]
    ELSE [status |-> "ok", font |-> font]

\* Font.layerOrder: the names of the layers attached to font f
RECURSIVE namesFrom(_, _)
namesFrom(f, l) ==
    IF l > NLayers THEN <<>>
    ELSE IF layerFont[l] = f /\ layerName[l] # PyNone
         THEN <<layerName[l]>> \o namesFrom(f, l + 1)
         ELSE namesFrom(f, l + 1)
layerOrder(f) == namesFrom(f, 1)

\* ------------------------------------------------------------------- name
_get_base_name(l) ==
    LET value == layerName[l] IN
    IF value # PyNone THEN validateLayerName(value)
    ELSE [status |-> "ok", value |-> value]

\* mutant: the new name is not looked up in font.layerOrder
_set_base_name_unchecked(l, value) ==
    LET current == _get_base_name(l)
        keep(status) ==
            [status |-> status, order |-> FALSE, hook |-> FALSE, name |-> layerName[l]]
    IN
    IF value = current.value THEN keep("ok")
    ELSE IF value = PyNone
    THEN [status |-> "ok", order |-> FALSE, hook |-> TRUE, name |-> value]
    ELSE LET v == validateLayerName(value) IN
         IF v.status # "ok" THEN keep(v.status)
         ELSE [status |-> "ok", order |-> FALSE, hook |-> TRUE, name |-> v.value]

\* mutant: no early return when the value is the current name
_set_base_name_always(l, value) ==
    LET keep(status, order) ==
            [status |-> status, order |-> order, hook |-> FALSE, name |-> layerName[l]]
    IN
    IF value = PyNone
    THEN [status |-> "ok", order |-> FALSE, hook |-> TRUE, name |-> value]
    ELSE LET v == validateLayerName(value) IN
         IF v.status # "ok" THEN keep(v.status, FALSE)
         ELSE IF _get_font(l) = NoFont THEN keep("AttributeError", FALSE)
         ELSE IF InSeq(v.value, layerOrder(_get_font(l))) THEN keep("DuplicateName", TRUE)
         ELSE [status |-> "ok", order |-> TRUE, hook |-> TRUE, name |-> v.value]

\* outcome of layer.name = value: status, whether font.layerOrder was read,
\* whether the _set_name hook was called, and the stored name afterwards
_set_base_name(l, value) ==
    LET current == _get_base_name(l)
        keep(status, order) ==
            [status |-> status, order |-> order, hook |-> FALSE, name |-> layerName[l]]
    IN
    IF current.status # "ok" THEN keep(current.status, FALSE)
    ELSE IF value = current.value THEN keep("ok", FALSE)
    ELSE IF value = PyNone
    THEN [status |-> "ok", order |-> FALSE, hook |-> TRUE, name |-> value]
    ELSE LET v == validateLayerName(value) IN
         IF v.status # "ok" THEN keep(v.status, FALSE)
         ELSE IF _get_font(l) = NoFont THEN keep("AttributeError", FALSE)
         ELSE IF InSeq(v.value, layerOrder(_get_font(l))) THEN keep("DuplicateName", TRUE)
         ELSE [status |-> "ok", order |-> TRUE, hook |-> TRUE, name |-> v.value]

\* ------------------------------------------------------------------ color
_get_base_color(l) ==
    LET value == layerColor[l] IN
    IF value # PyNone
    THEN LET v == validateColor(value) IN
         IF v.status = "ok" THEN [status |-> "ok", value |-> <<"Color", v.value>>]
         ELSE v
    ELSE [status |-> "ok", value |-> value]

\* mutant: the value is handed to the _set_color hook without validation
_set_base_color_unvalidated(l, value) ==
    [status |-> "ok", hook |-> TRUE, color |-> value]

\* outcome of layer.color = value
_set_base_color(l, value) ==
    LET v == IF value # PyNone THEN validateColor(value)
             ELSE [status |-> "ok", value |-> value]
    IN
    IF v.status # "ok"
    THEN [status |-> v.status, hook |-> FALSE, color |-> layerColor[l]]
    ELSE [status |-> "ok", hook |-> TRUE, color |-> v.value]

\* ---------------------------------------------------------------- actions
Outcome(op, status, hook, order) ==
    [op |-> op, status |-> status, hook |-> hook, order |-> order, ret |-> NoFont]

\* within each font, no two attached layers hold the same non-null name
UniqueNames ==
    \A l1, l2 \in Layers :
        (l1 # l2 /\ layerFont[l1] # NoFont /\ layerFont[l1] = layerFont[l2]
            /\ layerName[l1] # PyNone)
        => layerName[l1] # layerName[l2]

\* Layers as an environment hands them out: unattached (the class default
\* _font = None) or attached to their font, named by the environment with
\* names that are unique within each font.
InitLayers ==
    /\ pyDebug \in BOOLEAN
    /\ fontAlive = [f \in Fonts |-> TRUE]
    /\ layerFont \in [Layers -> Fonts \cup {NoFont}]
    /\ layerName \in [Layers -> StoredNames]
    /\ UniqueNames
    /\ layerColor = [l \in Layers |-> PyNone]

NoIterator ==
    /\ itState = "none"
    /\ itNames = <<>>
    /\ itYield = <<>>
    /\ itSnapshot = <<>>
    /\ itMutated = FALSE

Init ==
    /\ InitLayers
    /\ glyphHooks = TRUE
    /\ layerKeys = <<>>
    /\ NoIterator
    /\ last = Outcome("init", "ok", FALSE, FALSE)

SetFont(l, font) ==
    LET r == _set_font(l, font) IN
    /\ font # NoFont => fontAlive[font]
    /\ layerFont' = [layerFont EXCEPT ![l] = r.font]
    /\ last' = Outcome("setFont", r.status, FALSE, FALSE)
    /\ UNCHANGED <<fontAlive, layerName, layerColor>>
    /\ UNCHANGED <<pyDebug, glyphVars>>

GetFont(l) ==
    /\ last' = [Outcome("getFont", "ok", FALSE, FALSE) EXCEPT !.ret = _get_font(l)]
    /\ UNCHANGED <<fontAlive, layerFont, layerName, layerColor>>
    /\ UNCHANGED <<pyDebug, glyphVars>>

\* the last strong reference to font f goes away
DestroyFont(f) ==
    /\ fontAlive[f]
    /\ fontAlive' = [fontAlive EXCEPT ![f] = FALSE]
    /\ last' = Outcome("destroyFont", "ok", FALSE, FALSE)
    /\ UNCHANGED <<layerFont, layerName, layerColor>>
    /\ UNCHANGED <<pyDebug, glyphVars>>

SetName(l, value) ==
    LET r == _set_base_name(l, value) IN
    /\ layerName' = [layerName EXCEPT ![l] = r.name]
    /\ last' = Outcome("setName", r.status, r.hook, r.order)
    /\ UNCHANGED <<fontAlive, layerFont, layerColor>>
    /\ UNCHANGED <<pyDebug, glyphVars>>

SetColor(l, value) ==
    LET r == _set_base_color(l, value) IN
    /\ layerColor' = [layerColor EXCEPT ![l] = r.color]
    /\ last' = Outcome("setColor", r.status, r.hook, FALSE)
    /\ UNCHANGED <<fontAlive, layerFont, layerName>>
    /\ UNCHANGED <<pyDebug, glyphVars>>

\* the parent font and the name of a layer
Next ==
    \/ \E l \in Layers, font \in Fonts \cup {NoFont} : SetFont(l, font)
    \/ \E l \in Layers : GetFont(l)
    \/ \E f \in Fonts : DestroyFont(f)
    \/ \E l \in Layers, value \in NameInputs : SetName(l, value)

Spec == Init /\ [][Next]_vars

\* the identification of a layer: its name and its color
NextIdent ==
    \/ \E l \in Layers, value \in NameInputs : SetName(l, value)
    \/ \E l \in Layers, value \in ColorInputs : SetColor(l, value)

SpecIdent == Init /\ [][NextIdent]_vars

\* ------------------------------------------------- the layer as a container
\* unattached, unnamed layers; the container is a bare BaseLayer or the
\* layer of an environment, holding any glyphs
DistinctSeqs(S) ==
    {q \in UNION {[1..n -> S] : n \in 0..Cardinality(S)} : \A i, j \in DOMAIN q : i # j => q[i] # q[j]}

InitGlyphs ==
    /\ pyDebug = TRUE
    /\ fontAlive = [f \in Fonts |-> TRUE]
    /\ layerFont = [l \in Layers |-> NoFont]
    /\ layerName = [l \in Layers |-> PyNone]
    /\ layerColor = [l \in Layers |-> PyNone]
    /\ glyphHooks \in BOOLEAN
    /\ layerKeys \in DistinctSeqs(GlyphNames)
    /\ ~glyphHooks => layerKeys = <<>>
    /\ NoIterator
    /\ last = Outcome("init", "ok", FALSE, FALSE)

Contains(name) ==
    LET r == __contains__(name) IN
    /\ last' = [Outcome("contains", r.status, FALSE, FALSE) EXCEPT !.ret = r.value]
    /\ UNCHANGED <<layerVars, glyphVars>>

GetItem(name) ==
    LET r == __getitem__(name) IN
    /\ last' = [Outcome("getitem", r.status, FALSE, FALSE) EXCEPT !.ret = r.value]
    /\ UNCHANGED <<layerVars, glyphVars>>

Active == itState \in {"created", "running"}
Made == itState # "none"

NewGlyph(name, clear) ==
    /\ layerKeys' = IF glyphHooks THEN env_newGlyph(name, clear) ELSE newGlyph(name, clear)
    /\ itMutated' = (itMutated \/ (Made /\ layerKeys' # layerKeys))
    /\ last' = Outcome("newGlyph", "ok", FALSE, FALSE)
    /\ UNCHANGED <<layerVars, glyphHooks, itState, itNames, itYield, itSnapshot>>

RemoveGlyph(name) ==
    /\ layerKeys' = IF glyphHooks THEN env_removeGlyph(name) ELSE removeGlyph(name)
    /\ itMutated' = (itMutated \/ (Made /\ layerKeys' # layerKeys))
    /\ last' = Outcome("removeGlyph", "ok", FALSE, FALSE)
    /\ UNCHANGED <<layerVars, glyphHooks, itState, itNames, itYield, itSnapshot>>

InsertGlyph(glyph, name) ==
    /\ layerKeys' = IF glyphHooks THEN env_insertGlyph(glyph, name) ELSE insertGlyph(glyph, name)
    /\ itMutated' = (itMutated \/ (Made /\ layerKeys' # layerKeys))
    /\ last' = Outcome("insertGlyph",
                        IF glyphHooks /\ glyph = PyNone /\ name = PyNone THEN "Error" ELSE "ok",
                        FALSE, FALSE)
    /\ UNCHANGED <<layerVars, glyphHooks, itState, itNames, itYield, itSnapshot>>

\* iter(layer): a new generator, none of its code has run yet
IterCreate ==
    /\ itState' = "created"
    /\ itNames' = <<>>
    /\ itYield' = <<>>
    /\ itSnapshot' = <<>>
    /\ itMutated' = FALSE
    /\ last' = Outcome("iter", "ok", FALSE, FALSE)
    /\ UNCHANGED <<layerVars, glyphHooks, layerKeys>>

\* next(generator), on a generator that has not ended
IterNext ==
    /\ Active
    /\ LET r == _iter(itState, itNames) IN
        /\ itState' = r.state
        /\ itNames' = r.names
        /\ itYield' = IF r.status = "yield" THEN Append(itYield, r.value) ELSE itYield
        /\ last' = Outcome("next", r.status, FALSE, FALSE)
    /\ itSnapshot' = IF itState = "created" /\ keys.status = "ok" THEN keys.value ELSE itSnapshot
    /\ UNCHANGED <<layerVars, glyphHooks, layerKeys, itMutated>>

\* membership test and lookup by name, in a layer whose glyphs come and go
NextLookup ==
    \/ \E name \in GlyphInputs : Contains(name)
    \/ \E name \in GlyphInputs : GetItem(name)
    \/ \E name \in GlyphNames, clear \in BOOLEAN : NewGlyph(name, clear)
    \/ \E name \in GlyphNames : RemoveGlyph(name)
    \/ \E glyph, name \in GlyphNames \cup {PyNone} : InsertGlyph(glyph, name)

SpecLookup == InitGlyphs /\ [][NextLookup]_vars

\* iteration, in a layer whose glyphs come and go between the steps
NextIter ==
    \/ \E name \in GlyphNames, clear \in BOOLEAN : NewGlyph(name, clear)
    \/ \E name \in GlyphNames : RemoveGlyph(name)
    \/ \E glyph, name \in GlyphNames \cup {PyNone} : InsertGlyph(glyph, name)
    \/ IterCreate
    \/ IterNext

SpecIter == InitGlyphs /\ [][NextIter]_vars

\* ------------------------------------------------------------------ claims
NoDuplicates(seq) == \A i, j \in DOMAIN seq : i # j => seq[i] # seq[j]

\* C1: under name assignments alone (successful or rejected), the layerOrder
\* of every font never lists a name twice: no two distinct layers of a font
\* hold the same non-null name.
C1_NamesStayUnique == \A f \in Fonts : NoDuplicates(layerOrder(f))

\* a rename has succeeded in a font that holds two named layers
C1_Witness ==
    /\ last.op = "setName" /\ last.status = "ok" /\ last.hook /\ last.order
    /\ \E l1, l2 \in Layers :
        /\ l1 # l2 /\ layerFont[l1] # NoFont /\ layerFont[l1] = layerFont[l2]
        /\ layerName[l1] # PyNone /\ layerName[l2] # PyNone

\* C2: assigning a name that the owning font's layerOrder already lists and
\* that is not the layer's current name fails with the duplicate-name error,
\* does not call the _set_name hook and leaves the name as it was.
C2_DuplicateRejected ==
    /\ [](\A l \in Layers, value \in NameInputs :
            (/\ _get_font(l) # NoFont
             /\ value # _get_base_name(l).value
             /\ InSeq(value, layerOrder(_get_font(l))))
            => LET r == _set_base_name(l, value) IN
               /\ r.status = "DuplicateName"
               /\ ~r.hook
               /\ r.name = layerName[l])
    /\ [][last'.status = "DuplicateName"
            => /\ ~last'.hook
               /\ layerName' = layerName
               /\ \A l \in Layers : _get_base_name(l)' = _get_base_name(l)]_vars

C2_Witness ==
    /\ last.op = "setName" /\ last.status = "DuplicateName"
    /\ \E l \in Layers : layerName[l] = PyStr("a")
    /\ \E l \in Layers : layerName[l] = PyStr("b")

\* C3 (as claimed): assigning a valid name that no font lists succeeds for
\* every layer, attached or not, and the name then reads back as that value.
C3_ValidFreshNameAccepted ==
    [][\A l \in Layers, value \in NameInputs :
        (/\ last'.op = "setName"
         /\ validLayerName(value)
         /\ \A f \in Fonts : ~InSeq(value, layerOrder(f))
         /\ SetName(l, value))
        => /\ last'.status = "ok"
           /\ _get_base_name(l)'.value = value]_vars

\* C4: assigning the name the layer already holds returns at once: no error,
\* no _set_name call, no read of font.layerOrder, the stored name unchanged.
C4_SameNameNoOp ==
    /\ [](\A l \in Layers, value \in NameInputs :
            value = _get_base_name(l).value
            => LET r == _set_base_name(l, value) IN
               /\ r.status = "ok"
               /\ ~r.hook
               /\ ~r.order
               /\ r.name = layerName[l])
    /\ [][(last'.op = "setName" /\ ~last'.hook) => layerName' = layerName]_vars

\* the no-op happened while every layer was named and attached to a live
\* font, so the layer's own name was listed in its font's layerOrder
C4_Witness ==
    /\ last.op = "setName" /\ last.status = "ok" /\ ~last.hook
    /\ \A l \in Layers : _get_font(l) # NoFont /\ layerName[l] # PyNone

\* C5 (as claimed): an assignment to font succeeds only while _font is None
\* and then stores the given font (None keeps the layer assignable); once
\* _font is set, every assignment fails with the assertion error and _font
\* is never changed again, also after the font has been destroyed.
C5_FontSetOnce ==
    /\ [](\A l \in Layers, font \in Fonts \cup {NoFont} :
            LET r == _set_font(l, font) IN
            IF layerFont[l] # NoFont
            THEN r.status = "AssertionError" /\ r.font = layerFont[l]
            ELSE r.status = "ok" /\ r.font = font)
    /\ [][/\ \A l \in Layers : layerFont[l] # NoFont => layerFont'[l] = layerFont[l]
          /\ last'.status = "AssertionError" => layerFont' = layerFont]_vars

\* C6: reading font gives None when _font was never set or its font has been
\* destroyed, and the font that was set while that font is alive; the value
\* a read has just returned is never a destroyed font.
C6_FontReadNeverDangling ==
    /\ \A l \in Layers :
        /\ (layerFont[l] = NoFont \/ ~fontAlive[layerFont[l]]) => _get_font(l) = NoFont
        /\ (layerFont[l] # NoFont /\ fontAlive[layerFont[l]]) => _get_font(l) = layerFont[l]
    /\ last.op = "getFont" => (last.ret = NoFont \/ fontAlive[last.ret])

\* a read returned None although every layer had been attached: the fonts
\* are destroyed
C6_Witness ==
    /\ last.op = "getFont" /\ last.ret = NoFont
    /\ \A l \in Layers : layerFont[l] # NoFont /\ ~fontAlive[layerFont[l]]

\* C9: a name or color assignment whose value fails validation raises the
\* validation error without calling the _set_name / _set_color hook, and
\* leaves the stored name, the stored color and _font as they were.
C9_InvalidValueChangesNothing ==
    /\ [](/\ \A l \in Layers, value \in NameInputs :
              (value # PyNone /\ ~validLayerName(value))
              => LET r == _set_base_name(l, value) IN
                 r.status = "ValidationError" /\ ~r.hook /\ r.name = layerName[l]
          /\ \A l \in Layers, value \in ColorInputs :
              (value # PyNone /\ ~validColor(value))
              => LET r == _set_base_color(l, value) IN
                 r.status = "ValidationError" /\ ~r.hook /\ r.color = layerColor[l])
    /\ [][last'.status = "ValidationError"
            => /\ ~last'.hook
               /\ UNCHANGED <<layerName, layerColor, layerFont>>]_vars

\* an invalid color was refused on a font whose layers keep their colors
C9_Witness ==
    /\ last.op = "setColor" /\ last.status = "ValidationError"
    /\ \A l \in Layers : layerColor[l] = Red

\* the glyphs of the names q, in order
GlyphsOf(q) == [i \in DOMAIN q |-> env_getItem(q[i]).value]

\* C7: in a layer whose class implements the hooks, for every well-formed
\* glyph name, name in layer is true exactly when layer[name] does not raise
\* the not-found error, and layer[name] is then what _getItem returns for
\* the name; both follow the key list.
C7_ContainsAgreesWithGetItem ==
    glyphHooks =>
        \A name \in GlyphInputs :
            validGlyphName(name) =>
                LET c == __contains__(name)
                    g == __getitem__(name)
                IN
                /\ c.status = "ok"
                /\ c.value <=> g.status # "NotFound"
                /\ c.value <=> InSeq(name, keys.value)
                /\ c.value => (g.status = "ok" /\ g = env_getItem(name))

\* layer["missing"] has raised the not-found error in a layer of two glyphs
C7_Witness ==
    /\ glyphHooks
    /\ last.op = "getitem" /\ last.status = "NotFound"
    /\ layerKeys = <<PyStr("a"), PyStr("b")>>

\* C8: in a layer whose class implements the hooks, while the key list has
\* not changed since the iterator was made, the glyphs yielded so far are
\* those of the first names of the key list, in order, the names still to
\* come are the rest of the key list, and the iteration ends by
\* StopIteration having yielded one glyph per key, none twice: as many as
\* len(layer).
C8_IterationYieldsEachKeyOnce ==
    (glyphHooks /\ ~itMutated) =>
        /\ itState = "running" =>
            /\ Len(itYield) >= 1 /\ Len(itYield) <= Len(keys.value)
            /\ itYield = GlyphsOf(SubSeq(keys.value, 1, Len(itYield)))
            /\ itNames = SubSeq(keys.value, Len(itYield), Len(keys.value))
        /\ itState = "finished" =>
            /\ last.op = "next" => last.status = "StopIteration"
            /\ itYield = GlyphsOf(keys.value)
            /\ _len.status = "ok" /\ Len(itYield) = _len.value
            /\ \A i, j \in DOMAIN itYield : i # j => itYield[i] # itYield[j]

\* an iteration over at least two glyphs has ended, the layer untouched
C8_Witness ==
    /\ glyphHooks
    /\ itState = "finished" /\ ~itMutated
    /\ Len(itYield) >= 2 /\ Len(itYield) = Len(layerKeys)

\* the names the generator has still to visit
Pending == IF itState = "running" THEN Tail(itNames) ELSE <<>>

\* C10 (as claimed): in a layer whose class implements the hooks, after
\* every step that did not fail, the names still to be visited are those of
\* the key list as it is at that step, less the names already visited.
C10_KeysRefetchedEachStep ==
    (glyphHooks /\ last.op = "next" /\ last.status \in {"yield", "StopIteration"})
    => Pending = SelectSeq(keys.value, LAMBDA k : ~InSeq(env_getItem(k).value, itYield))

\* C10 (amended): in a layer whose class implements the hooks, with _keys
\* returning a list of its own, the key list is fetched once, by the first
\* step; the steps visit the names of that list in order, whatever is added
\* to the layer later, and the iteration ends after the last of them. Each
\* step looks its name up in the current key list: it yields the glyph if
\* the name is still there and otherwise raises the not-found error, which
\* ends the iteration.
C10_KeysFetchedOnce ==
    glyphHooks =>
        /\ itState = "created" => itYield = <<>>
        /\ itState \in {"running", "finished"} =>
            /\ Len(itYield) <= Len(itSnapshot)
            /\ itYield = GlyphsOf(SubSeq(itSnapshot, 1, Len(itYield)))
        /\ itState = "running" =>
            /\ Len(itYield) >= 1
            /\ itNames = SubSeq(itSnapshot, Len(itYield), Len(itSnapshot))
        /\ (last.op = "next" /\ last.status = "yield") =>
            InSeq(itSnapshot[Len(itYield)], keys.value)
        /\ (last.op = "next" /\ last.status = "StopIteration") =>
            Len(itYield) = Len(itSnapshot)
        /\ (last.op = "next" /\ last.status = "NotFound") =>
            /\ Len(itYield) < Len(itSnapshot)
            /\ ~InSeq(itSnapshot[Len(itYield) + 1], keys.value)

\* the iteration has ended normally without visiting a glyph that was added
\* to the layer after its first step
C10_Witness ==
    /\ glyphHooks
    /\ last.op = "next" /\ last.status = "StopIteration"
    /\ itYield # <<>>
    /\ \E i \in DOMAIN layerKeys : ~InSeq(layerKeys[i], itSnapshot)

====
